---- MODULE Spec2Model ----
(***************************************************************************)
(* Model of the scrambletron / pii_removal anonymization operators         *)
(* (InstanceCounterAnonymizer, InstanceReplacerAnonymizer) and of the      *)
(* Danish CPR number recognizer (CPRRecognizer.validate_result).           *)
(*                                                                         *)
(* A Python str is a sequence of chunks.  A chunk is a one-character       *)
(* string for every character the code inspects ("<", ">", "_", "'", " ",  *)
(* "-", a tab, a line break, a digit) and an atomic word (a run of         *)
(* letters) otherwise.  Words hold none of the inspected characters, so    *)
(* split, replace, slicing and int() act on chunks as they do on           *)
(* characters.                                                             *)
(***************************************************************************)
EXTENDS Integers, Sequences, FiniteSets, TLC

VARIABLES
    package,            \* "scrambletron" or "pii_removal": which source tree runs
    operator_name,      \* "entity_counter" or "entity_replacer"
    entity_mapping,     \* dict: entity type -> dict: original text -> replacement
    last_call,          \* the operator call made last: method, text, params
    returned,           \* what that call returned or raised
    generated,          \* what _generate_replacement gave that call, if it ran
    guess_text,         \* _guess_gender: its text argument (a first name)
    gender,             \* _guess_gender: the label Detector.get_gender gave
    pattern_text,       \* validate_result: the matched text
    pc,                 \* validate_result: position in the method
    text,               \* validate_result: the sanitized text
    day, month, year,   \* validate_result: the parsed date parts
    seq_number,         \* validate_result: the sequence number part
    full_year,          \* _derive_full_year: the value returned (or raised)
    date_parsed,        \* validate_result: the try block of lines 62-68 was entered
    verify_started,     \* _verify_modulo_11 was called
    verify_result,      \* what _verify_modulo_11 returned
    verdict,            \* what validate_result returned
    previous            \* validate_result: the call made before this one, if any

gender_vars == <<guess_text, gender>>
mapper_vars == <<package, operator_name, entity_mapping, last_call, returned,
                 generated, guess_text, gender>>
validator_vars == <<pattern_text, pc, text, day, month, year, seq_number,
                    full_year, date_parsed, verify_started, verify_result, verdict,
                    previous>>
vars == <<package, operator_name, entity_mapping, last_call, returned,
          generated, guess_text, gender, pattern_text, pc, text, day,
          month, year, seq_number, full_year, date_parsed, verify_started,
          verify_result, verdict, previous>>

---------------------------------------------------------------------------
(* Python built-ins on strings and dicts *)

DigitChars == <<"0", "1", "2", "3", "4", "5", "6", "7", "8", "9">>

IsDigitChar(c) == \E i \in 1..Len(DigitChars) : DigitChars[i] = c

DigitValue(c) == (CHOOSE i \in 1..Len(DigitChars) : DigitChars[i] = c) - 1

\* str.isdigit(): non-empty and every character a digit
IsDigit(s) == Len(s) > 0 /\ \A i \in 1..Len(s) : IsDigitChar(s[i])

\* the outcome of int(s) when s is no decimal literal
ValueError == -1

RECURSIVE ParseDigits(_)
ParseDigits(s) ==
    IF Len(s) = 0 THEN 0
    ELSE 10 * ParseDigits(SubSeq(s, 1, Len(s) - 1)) + DigitValue(s[Len(s)])

\* int(s) for a str s
ParseInt(s) == IF IsDigit(s) THEN ParseDigits(s) ELSE ValueError

\* str(n), as "{index}" and f"{year}" format a non-negative int
RECURSIVE FormatInt(_)
FormatInt(n) ==
    IF n < 10 THEN <<DigitChars[n + 1]>>
    ELSE FormatInt(n \div 10) \o <<DigitChars[(n % 10) + 1]>>

\* s.replace(old, new) for a one-character old; new is a str
RECURSIVE Replace(_, _, _)
Replace(s, old, new) ==
    IF Len(s) = 0 THEN <<>>
    ELSE (IF Head(s) = old THEN new ELSE <<Head(s)>>) \o Replace(Tail(s), old, new)

\* s.split(sep)[-1]: what follows the last sep (all of s when it has none)
RECURSIVE LastSegment(_, _)
LastSegment(s, sep) ==
    IF Len(s) = 0 THEN <<>>
    ELSE IF s[Len(s)] = sep THEN <<>>
    ELSE LastSegment(SubSeq(s, 1, Len(s) - 1), sep) \o <<s[Len(s)]>>

\* s[:-1]
DropLast(s) == IF Len(s) = 0 THEN <<>> ELSE SubSeq(s, 1, Len(s) - 1)

Whitespace == {" ", "\t", "\n"}

\* s.split(): the whitespace-delimited tokens
SplitWhitespace(s) == SelectSeq(s, LAMBDA c : c \notin Whitespace)

EmptyDict == [k \in {} |-> k]

\* d[k] = v
SetItem(d, k, v) == [x \in (DOMAIN d) \cup {k} |-> IF x = k THEN v ELSE d[x]]

\* d.values()
Values(d) == {d[k] : k \in DOMAIN d}

SetMax(S) == CHOOSE x \in S : \A y \in S : y <= x

---------------------------------------------------------------------------
(* Inputs of the operators: entity types, detected spans, params *)

PERSON == <<"PERSON">>
LOCATION == <<"LOCATION">>
PHONE_NUMBER == <<"PHONE", "_", "NUMBER">>
EMAIL_ADDRESS == <<"EMAIL", "_", "ADDRESS">>

\* the entity types the operators are called with; EMAIL_ADDRESS has no generator
EntityTypes == {PERSON, LOCATION, EMAIL_ADDRESS}

\* the span texts the operators are called with; the last one is blank
Texts == {<<"Anders", " ", "Jensen">>, <<"Anders">>, <<" ">>}

ParamKeys == {"entity_type", "entity_mapping"}

NoType == <<>>

\* params: None, or a dict holding some of the two keys; its "entity_mapping",
\* when present, is the run's one mapping (the variable entity_mapping)
WellFormedParams ==
    {[none |-> FALSE, keys |-> ParamKeys, entity_type |-> t] : t \in EntityTypes}

MalformedParams ==
    {[none |-> TRUE, keys |-> {}, entity_type |-> NoType],
     [none |-> FALSE, keys |-> {}, entity_type |-> NoType],
     [none |-> FALSE, keys |-> {"entity_mapping"}, entity_type |-> NoType],
     [none |-> FALSE, keys |-> {"entity_type"}, entity_type |-> PERSON]}

\* the span passed along with malformed params (operate never reads it then)
MalformedCallText == <<"Anders">>

\* the most entries one run records
MaxEntries == 4

NumEntries(m) ==
    LET RECURSIVE Sum(_)
        Sum(S) == IF S = {} THEN 0
                  ELSE LET t == CHOOSE x \in S : TRUE
                       IN Cardinality(DOMAIN m[t]) + Sum(S \ {t})
    IN Sum(DOMAIN m)

Raise(e) == [kind |-> "raise", value |-> <<e>>]
Return(v) == [kind |-> "return", value |-> v]
NoResult == [kind |-> "none", value |-> <<>>]

---------------------------------------------------------------------------
(* The fake value generators and the gender detector (external libraries) *)

name_male == {<<"Lars", " ", "Holm">>}
name_female == {<<"Mette", " ", "Lund">>}
name_nonbinary == {<<"Kim", " ", "Dahl">>}
name == name_male \cup name_female \cup name_nonbinary
address == {<<"Byvej", "\n", "Aarhus">>}
phone_number == {<<"2", "0", "1", "2">>}

\* the labels Detector.get_gender returns
GenderLabels == {"unknown", "andy", "male", "mostly_male", "female", "mostly_female"}

\* the table written without its "andy" entry
label_to_genderMut ==
    [label \in {"unknown", "male", "mostly_male", "female", "mostly_female"} |->
        CASE label \in {"unknown"} -> name_nonbinary
          [] label \in {"male", "mostly_male"} -> name_male
          [] label \in {"female", "mostly_female"} -> name_female]

\* label_to_gender: the generator each label selects
label_to_gender ==
    [label \in {"unknown", "andy", "male", "mostly_male", "female", "mostly_female"} |->
        CASE label \in {"unknown", "andy"} -> name_nonbinary
          [] label \in {"male", "mostly_male"} -> name_male
          [] label \in {"female", "mostly_female"} -> name_female]

\* label_to_gender[gender]: the generator returned, or the KeyError raised
LookupGender(label) ==
    IF label \in DOMAIN label_to_gender
        THEN [kind |-> "return", value |-> label_to_gender[label]]
        ELSE [kind |-> "raise", value |-> {<<"KeyError">>}]

\* _guess_gender(text): the generators it may return (one per label the
\* detector may give the token), or the KeyError of the lookup
GuessGender(token) == {LookupGender(label) : label \in GenderLabels}

\* an unsupported entity type raising in place of the closing return ""
FallbackReplacementMut == {Raise("ValueError")}

\* the closing return "" of _generate_replacement
FallbackReplacement == {Return(<<>>)}

\* _generate_replacement(entity, value): every outcome it can have
GenerateReplacement(entity, value) ==
    IF package = "scrambletron" THEN
        IF entity = PERSON THEN
            IF SplitWhitespace(value) = <<>> THEN {Raise("IndexError")}
            ELSE UNION {IF g.kind = "return" THEN {Return(n) : n \in g.value}
                        ELSE {Raise("KeyError")} :
                        g \in GuessGender(SplitWhitespace(value)[1])}
        ELSE IF entity = LOCATION THEN {Return(Replace(a, "\n", <<" ">>)) : a \in address}
        ELSE IF entity = PHONE_NUMBER THEN {Return(p) : p \in phone_number}
        ELSE FallbackReplacement
    ELSE
        IF entity = PERSON THEN {Return(n) : n \in name}
        ELSE IF entity = LOCATION THEN {Return(a) : a \in address}
        ELSE FallbackReplacement

---------------------------------------------------------------------------
(* REPLACING_FORMAT.format(...) of the three operator classes *)

\* the template filled with a fixed label in place of the entity type
CounterFormatMut(entity_type, index) ==
    <<"<", "ENTITY", "_">> \o FormatInt(index) \o <<">">>

CounterFormat(entity_type, index) ==
    <<"<">> \o entity_type \o <<"_">> \o FormatInt(index) \o <<">">>

ReplacerFormat(type, replacement) ==
    <<"<">> \o type \o <<"_">> \o replacement \o <<">">>

PiiReplacerFormat(entity_type, replacement, index) ==
    <<"<">> \o entity_type \o <<"_", "'">> \o replacement \o <<"'", "_">>
        \o FormatInt(index) \o <<">">>

\* get_index(value) = int(value.split("_")[-1][:-1])
GetIndex(value) == ParseInt(DropLast(LastSegment(value, "_")))

\* min(indices) in place of max(indices)
GetLastIndexMut(entity_mapping_for_type) ==
    LET indices == {GetIndex(v) : v \in Values(entity_mapping_for_type)}
    IN CHOOSE x \in indices : \A y \in indices : x <= y

\* _get_last_index(entity_mapping_for_type)
GetLastIndex(entity_mapping_for_type) ==
    SetMax({GetIndex(v) : v \in Values(entity_mapping_for_type)})

---------------------------------------------------------------------------
(* The operators: validate(params) and operate(text, params) *)

\* the lookups made with params.get(...), which never raises
ParamsErrorMut(params) == "none"

\* the exception the lookups of params raise before the mapping is touched,
\* "none" when params holds both keys
ParamsError(params) ==
    IF package = "scrambletron" /\ (params.none \/ params.keys = {}) THEN "ValueError"
    ELSE IF params.none THEN "TypeError"
    ELSE IF "entity_type" \notin params.keys THEN "KeyError"
    ELSE IF "entity_mapping" \notin params.keys THEN "KeyError"
    ELSE "none"

\* the exception validate(params) raises, "none" when it returns
ValidateError(params) ==
    IF package = "scrambletron" /\ (params.none \/ params.keys = {}) THEN "ValueError"
    ELSE IF params.none THEN "TypeError"
    ELSE IF "entity_mapping" \notin params.keys THEN "ValueError"
    ELSE IF "entity_type" \notin params.keys THEN "ValueError"
    ELSE "none"

\* not entity_mapping.get(entity_type): no dict for the type, or an empty one
NoMappingForType(m, entity_type) ==
    entity_type \notin DOMAIN m \/ DOMAIN m[entity_type] = {}

\* the membership test made on the outer dict instead of the per-type one
IsRecordedMut(m, entity_type, span) == span \in DOMAIN m

\* text in entity_mapping_for_type
IsRecorded(m, entity_type, span) == span \in DOMAIN m[entity_type]

\* entity_mapping[entity_type] = {} followed by
\* entity_mapping[entity_type][text] = new_text
RecordFirst(m, entity_type, span, new_text) ==
    SetItem(SetItem(m, entity_type, EmptyDict), entity_type,
            SetItem(EmptyDict, span, new_text))

\* the reset of line 31 run on the path of an existing dict too
RecordNextMut(m, entity_type, span, new_text) ==
    RecordFirst(m, entity_type, span, new_text)

\* entity_mapping[entity_type][text] = new_text on an existing dict
RecordNext(m, entity_type, span, new_text) ==
    SetItem(m, entity_type, SetItem(m[entity_type], span, new_text))

\* InstanceCounterAnonymizer.operate, past the params lookups
OperateCounter(span, entity_type) ==
    /\ generated' = NoResult
    /\ IF NoMappingForType(entity_mapping, entity_type) THEN
          LET new_text == CounterFormat(entity_type, 0) IN
          /\ entity_mapping' = RecordFirst(entity_mapping, entity_type, span, new_text)
          /\ returned' = Return(new_text)
       ELSE IF IsRecorded(entity_mapping, entity_type, span) THEN
          /\ returned' = Return(entity_mapping[entity_type][span])
          /\ UNCHANGED entity_mapping
       ELSE
          LET previous_index == GetLastIndex(entity_mapping[entity_type])
              new_text == CounterFormat(entity_type, previous_index + 1) IN
          /\ entity_mapping' = RecordNext(entity_mapping, entity_type, span, new_text)
          /\ returned' = Return(new_text)

\* the tag InstanceReplacerAnonymizer.operate formats around a replacement
ReplacerTag(entity_type, replacement, first) ==
    IF package = "scrambletron" THEN ReplacerFormat(entity_type, replacement)
    ELSE PiiReplacerFormat(entity_type, replacement,
            IF first THEN 0 ELSE GetLastIndex(entity_mapping[entity_type]) + 1)

\* InstanceReplacerAnonymizer.operate, past the params lookups
OperateReplacer(span, entity_type) ==
    IF NoMappingForType(entity_mapping, entity_type) THEN
        \E replacement \in GenerateReplacement(entity_type, span) :
            /\ generated' = replacement
            /\ IF replacement.kind = "raise" THEN
                  /\ returned' = replacement
                  /\ UNCHANGED entity_mapping
               ELSE
                  LET new_text == ReplacerTag(entity_type, replacement.value, TRUE) IN
                  /\ entity_mapping' =
                        RecordFirst(entity_mapping, entity_type, span, new_text)
                  /\ returned' = Return(new_text)
    ELSE IF IsRecorded(entity_mapping, entity_type, span) THEN
        /\ generated' = NoResult
        /\ returned' = Return(entity_mapping[entity_type][span])
        /\ UNCHANGED entity_mapping
    ELSE
        \E replacement \in GenerateReplacement(entity_type, span) :
            /\ generated' = replacement
            /\ IF replacement.kind = "raise" THEN
                  /\ returned' = replacement
                  /\ UNCHANGED entity_mapping
               ELSE
                  LET new_text == ReplacerTag(entity_type, replacement.value, FALSE) IN
                  /\ entity_mapping' =
                        RecordNext(entity_mapping, entity_type, span, new_text)
                  /\ returned' = Return(new_text)

\* operate(text, params) of the deployed operator
Operate(span, params) ==
    /\ last_call' = [method |-> "operate", text |-> span, params |-> params]
    /\ IF ParamsError(params) # "none" THEN
          /\ returned' = Raise(ParamsError(params))
          /\ generated' = NoResult
          /\ UNCHANGED entity_mapping
       ELSE IF operator_name = "entity_counter" THEN
          OperateCounter(span, params.entity_type)
       ELSE
          OperateReplacer(span, params.entity_type)
    /\ NumEntries(entity_mapping') <= MaxEntries
    /\ UNCHANGED <<package, operator_name>>
    /\ UNCHANGED gender_vars
    /\ UNCHANGED validator_vars

\* validate(params) of the deployed operator
Validate(params) ==
    /\ last_call' = [method |-> "validate", text |-> <<>>, params |-> params]
    /\ returned' = IF ValidateError(params) # "none"
                      THEN Raise(ValidateError(params)) ELSE Return(<<>>)
    /\ generated' = NoResult
    /\ UNCHANGED <<package, operator_name, entity_mapping>>
    /\ UNCHANGED gender_vars
    /\ UNCHANGED validator_vars

\* _guess_gender not running
GenderIdle ==
    /\ guess_text = <<>>
    /\ gender = "none"

\* no call of validate_result came before
NoPrevious == [pattern_text |-> <<>>, verdict |-> "none"]

NoCall == [method |-> "none", text |-> <<>>,
           params |-> [none |-> TRUE, keys |-> {}, entity_type |-> NoType]]

\* the validator at rest, while the operators run
ValidatorIdle ==
    /\ pattern_text = <<>>
    /\ pc = "idle"
    /\ text = <<>>
    /\ day = 0 /\ month = 0 /\ year = 0
    /\ seq_number = <<>>
    /\ full_year = 0
    /\ date_parsed = FALSE
    /\ verify_started = FALSE
    /\ verify_result = "none"
    /\ verdict = "none"
    /\ previous = NoPrevious

\* one run: a deployment's operator and a mapping created empty
MapperInit ==
    /\ package \in {"scrambletron", "pii_removal"}
    /\ operator_name \in {"entity_counter", "entity_replacer"}
    /\ entity_mapping = EmptyDict
    /\ last_call = NoCall
    /\ returned = NoResult
    /\ generated = NoResult
    /\ GenderIdle
    /\ ValidatorIdle

MapperNext ==
    \/ \E span \in Texts, params \in WellFormedParams : Operate(span, params)
    \/ \E params \in MalformedParams : Operate(MalformedCallText, params)
    \/ \E params \in MalformedParams \cup WellFormedParams : Validate(params)

MapperSpec == MapperInit /\ [][MapperNext]_vars

\* the first names _guess_gender is called with
FirstNames == {<<"Anders">>, <<"anders">>, <<"Mette">>, <<"Kim">>, <<"Lars">>,
               <<"Jensen">>, <<"Aarhus">>, <<"X">>}

\* one call of _guess_gender(text), made by _generate_replacement for a PERSON
GenderInit ==
    /\ package = "scrambletron"
    /\ operator_name = "entity_replacer"
    /\ entity_mapping = EmptyDict
    /\ last_call = NoCall
    /\ returned = NoResult
    /\ generated = NoResult
    /\ guess_text \in FirstNames
    /\ gender = "none"
    /\ pc = "guess_call"
    /\ pattern_text = <<>>
    /\ text = <<>>
    /\ day = 0 /\ month = 0 /\ year = 0
    /\ seq_number = <<>>
    /\ full_year = 0
    /\ date_parsed = FALSE
    /\ verify_started = FALSE
    /\ verify_result = "none"
    /\ verdict = "none"
    /\ previous = NoPrevious

\* line 147: gender = self.d.get_gender(text)
GetGender ==
    /\ pc = "guess_call"
    /\ \E label \in GenderLabels : gender' = label
    /\ pc' = "guess_lookup"
    /\ UNCHANGED <<package, operator_name, entity_mapping, last_call, returned,
                   generated, guess_text>>
    /\ UNCHANGED <<pattern_text, text, day, month, year, seq_number, full_year,
                   date_parsed, verify_started, verify_result, verdict, previous>>

\* lines 148-150: name_generator = label_to_gender[gender]; return name_generator
ReturnGenerator ==
    /\ pc = "guess_lookup"
    /\ returned' = LookupGender(gender)
    /\ pc' = IF LookupGender(gender).kind = "return" THEN "guess_return" ELSE "guess_done"
    /\ UNCHANGED <<package, operator_name, entity_mapping, last_call, generated,
                   guess_text, gender>>
    /\ UNCHANGED <<pattern_text, text, day, month, year, seq_number, full_year,
                   date_parsed, verify_started, verify_result, verdict, previous>>

\* line 130: the generator _guess_gender returned is called
CallGenerator ==
    /\ pc = "guess_return"
    /\ \E n \in returned.value : generated' = Return(n)
    /\ pc' = "guess_done"
    /\ UNCHANGED <<package, operator_name, entity_mapping, last_call, returned,
                   guess_text, gender>>
    /\ UNCHANGED <<pattern_text, text, day, month, year, seq_number, full_year,
                   date_parsed, verify_started, verify_result, verdict, previous>>

GenderNext ==
    \/ GetGender
    \/ ReturnGenerator
    \/ CallGenerator

GenderSpec == GenderInit /\ [][GenderNext]_vars

---------------------------------------------------------------------------
(* Properties of the operators *)

\* the (entity type, original) pairs recorded in a mapping
Recorded(m) == {p \in (DOMAIN m) \X Texts : p[2] \in DOMAIN m[p[1]]}

\* the last call was operate with both params keys
WellFormedOperate(c) ==
    c.method = "operate" /\ ~c.params.none /\ c.params.keys = ParamKeys

\* C1: idempotence of the mapper.  When operate(text, params) has returned a
\* string and the next call is operate with the same text and entity type, that
\* call returns the identical string, leaves the mapping unchanged and does not
\* run the generator; this for the counter and the replacer of both packages,
\* after any sequence of earlier calls.
C1_Idempotence ==
    [][(/\ WellFormedOperate(last_call)
        /\ returned.kind = "return"
        /\ last_call' = last_call)
       => (/\ returned' = returned
           /\ entity_mapping' = entity_mapping
           /\ generated' = NoResult)]_vars

\* C1 witness: a repeated call answered from a mapping that holds other
\* entries too, by the replacer
C1_Witness ==
    /\ operator_name = "entity_replacer"
    /\ WellFormedOperate(last_call)
    /\ returned.kind = "return"
    /\ generated = NoResult
    /\ Cardinality(Recorded(entity_mapping)) >= 3

\* C2: replacement strings are never reused across different original values:
\* two recorded entries with different original texts never hold the same
\* replacement string (any variant, any entity types).
C2_NoReuse ==
    \A p \in Recorded(entity_mapping), q \in Recorded(entity_mapping) :
        p[2] # q[2] => entity_mapping[p[1]][p[2]] # entity_mapping[q[1]][q[2]]

\* C4: append-only mapping.  Every step keeps every recorded entry with the
\* replacement it has: no call overwrites or removes one, the call that
\* creates a per-type mapping included.
C4_AppendOnly ==
    [][\A p \in Recorded(entity_mapping) :
          /\ p \in Recorded(entity_mapping')
          /\ entity_mapping'[p[1]][p[2]] = entity_mapping[p[1]][p[2]]]_vars

\* C4 witness: two per-type mappings, one of them with two entries
C4_Witness ==
    /\ Cardinality(DOMAIN entity_mapping) >= 2
    /\ \E t \in DOMAIN entity_mapping : Cardinality(DOMAIN entity_mapping[t]) >= 2

\* C5: ordinal monotonicity of the counter.  A call that records a new original
\* value for an entity type with k values already recorded (it is the (k+1)-th
\* distinct one) assigns and returns "<TYPE_k>", whatever repeats and calls
\* for other types came in between.
C5_OrdinalMonotonicity ==
    [][operator_name = "entity_counter" =>
         \A p \in Recorded(entity_mapping') \ Recorded(entity_mapping) :
            LET k == IF p[1] \in DOMAIN entity_mapping
                        THEN Cardinality(DOMAIN entity_mapping[p[1]]) ELSE 0
                tag == <<"<">> \o p[1] \o <<"_">> \o FormatInt(k) \o <<">">>
            IN /\ entity_mapping'[p[1]][p[2]] = tag
               /\ returned' = Return(tag)]_vars

\* C5 witness: the third distinct value of a type was just given index 2,
\* with another type recorded as well
C5_Witness ==
    /\ operator_name = "entity_counter"
    /\ Cardinality(DOMAIN entity_mapping) >= 2
    /\ \E t \in DOMAIN entity_mapping :
          /\ Cardinality(DOMAIN entity_mapping[t]) = 3
          /\ returned = Return(<<"<">> \o t \o <<"_", "2", ">">>)

\* C6: type isolation.  The same original text recorded under two entity types
\* holds two different replacements, one in each type's own mapping; and an
\* operate call for one type records its entry under that type and leaves the
\* other types' mappings as they were.
C6_TypeIsolation ==
    /\ [](\A t1 \in DOMAIN entity_mapping, t2 \in DOMAIN entity_mapping :
             \A x \in (DOMAIN entity_mapping[t1]) \cap (DOMAIN entity_mapping[t2]) :
                t1 # t2 => entity_mapping[t1][x] # entity_mapping[t2][x])
    /\ [][(WellFormedOperate(last_call') /\ returned'.kind = "return") =>
            LET t == last_call'.params.entity_type
                x == last_call'.text
            IN /\ <<t, x>> \in Recorded(entity_mapping')
               /\ entity_mapping'[t][x] = returned'.value
               /\ \A t2 \in (DOMAIN entity_mapping) \ {t} :
                     /\ t2 \in DOMAIN entity_mapping'
                     /\ entity_mapping'[t2] = entity_mapping[t2]]_vars

\* C6 witness: one text recorded under PERSON and under LOCATION
C6_Witness ==
    \E x \in Texts :
        /\ <<PERSON, x>> \in Recorded(entity_mapping)
        /\ <<LOCATION, x>> \in Recorded(entity_mapping)

\* a call whose params are None or lack one of the two keys
MalformedCall(c) ==
    c.method \in {"operate", "validate"} /\ (c.params.none \/ c.params.keys # ParamKeys)

\* C9: a contract violation fails fast.  An operate or validate call whose
\* params are None or lack the entity_type or entity_mapping key raises, and
\* that call leaves every mapping as it was.
C9_FailFast ==
    /\ [](MalformedCall(last_call) => returned.kind = "raise")
    /\ [][MalformedCall(last_call') => entity_mapping' = entity_mapping]_vars

\* C9 witness: operate was called without the entity_mapping key on a run that
\* has recorded entries, and raised
C9_Witness ==
    /\ last_call.method = "operate"
    /\ last_call.params.keys = {"entity_type"}
    /\ returned.kind = "raise"
    /\ Cardinality(Recorded(entity_mapping)) >= 2

\* an operate call for an entity type _generate_replacement has no branch for
UnsupportedCall(c) ==
    WellFormedOperate(c) /\ c.params.entity_type \notin {PERSON, LOCATION, PHONE_NUMBER}

\* C10: unsupported entity types degrade gracefully in the replacer.  For an
\* entity type other than PERSON, LOCATION and PHONE_NUMBER operate returns;
\* when the generator ran it gave the empty string; the returned tag is
\* recorded in mapping[entity_type][text]; and a later call for a recorded
\* (entity_type, text) returns the recorded tag.
C10_UnsupportedType ==
    /\ []((operator_name = "entity_replacer" /\ UnsupportedCall(last_call)) =>
            /\ returned.kind = "return"
            /\ generated \in {NoResult, Return(<<>>)}
            /\ <<last_call.params.entity_type, last_call.text>>
                  \in Recorded(entity_mapping)
            /\ entity_mapping[last_call.params.entity_type][last_call.text]
                  = returned.value)
    /\ [][(/\ operator_name = "entity_replacer"
           /\ UnsupportedCall(last_call')
           /\ <<last_call'.params.entity_type, last_call'.text>>
                 \in Recorded(entity_mapping))
          => returned' = Return(entity_mapping[last_call'.params.entity_type]
                                              [last_call'.text])]_vars

\* C10 witness: the scrambletron replacer answered a repeated EMAIL_ADDRESS
\* call with the recorded empty tag
C10_Witness ==
    /\ package = "scrambletron"
    /\ operator_name = "entity_replacer"
    /\ WellFormedOperate(last_call)
    /\ last_call.params.entity_type = EMAIL_ADDRESS
    /\ generated = NoResult
    /\ returned = Return(<<"<", "EMAIL", "_", "ADDRESS", "_", ">">>)

\* C11: gender bucket totality.  Whatever label of {unknown, andy, male,
\* mostly_male, female, mostly_female} the classifier gives, _guess_gender
\* raises nothing and returns exactly one generator: the nonbinary one for
\* unknown and andy, the male one for male and mostly_male, the female one for
\* female and mostly_female; the name then generated comes from that generator.
C11_GenderBuckets ==
    /\ pc = "guess_lookup" =>
          gender \in {"unknown", "andy", "male", "mostly_male", "female", "mostly_female"}
    /\ pc \in {"guess_return", "guess_done"} =>
          /\ returned.kind = "return"
          /\ gender \in {"unknown", "andy"} => returned.value = name_nonbinary
          /\ gender \in {"male", "mostly_male"} => returned.value = name_male
          /\ gender \in {"female", "mostly_female"} => returned.value = name_female
    /\ pc = "guess_done" => generated.kind = "return" /\ generated.value \in returned.value

\* C11 witness: the label andy selected the nonbinary generator, which gave
\* the name
C11_Witness ==
    /\ pc = "guess_done"
    /\ gender = "andy"
    /\ returned = Return(name_nonbinary)
    /\ generated = Return(<<"Kim", " ", "Dahl">>)

---------------------------------------------------------------------------
(* CPRRecognizer: validate_result, _verify_modulo_11, _derive_full_year *)

\* s.split(sep)
RECURSIVE Split(_, _)
Split(s, sep) ==
    IF \A i \in 1..Len(s) : s[i] # sep THEN <<s>>
    ELSE LET i == CHOOSE j \in 1..Len(s) :
                     s[j] = sep /\ \A k \in 1..(j - 1) : s[k] # sep
         IN <<SubSeq(s, 1, i - 1)>> \o Split(SubSeq(s, i + 1, Len(s)), sep)

\* the pairs without the one for the space
replacement_pairsMut == {"-"}

\* self.replacement_pairs: the characters sanitize_value deletes
replacement_pairs == {" ", "-"}

\* EntityRecognizer.sanitize_value(pattern_text, self.replacement_pairs)
SanitizeValue(s) == SelectSeq(s, LAMBDA c : c \notin replacement_pairs)

IsLeapYear(y) == (y % 4 = 0 /\ y % 100 # 0) \/ y % 400 = 0

\* the days of a month, as datetime counts them
DaysInMonth(y, m) ==
    IF m = 2 THEN (IF IsLeapYear(y) THEN 29 ELSE 28)
    ELSE IF m \in {4, 6, 9, 11} THEN 30
    ELSE 31

\* the year written with two digits, as f"{year:02d}-{month}-{day}"
DateStringMut(y, m, d) ==
    (IF y < 10 THEN <<"0">> ELSE <<>>) \o FormatInt(y) \o <<"-">> \o FormatInt(m)
        \o <<"-">> \o FormatInt(d)

\* f"{year}-{month}-{day}"
DateString(y, m, d) == FormatInt(y) \o <<"-">> \o FormatInt(m) \o <<"-">> \o FormatInt(d)

\* datetime.strptime(s, "%y-%m-%d") or (..., "%Y-%m-%d") returns (TRUE) or
\* raises ValueError (FALSE): %y takes two digits and %Y four, %m one or two
\* digits giving 1..12, %d one or two digits giving 1..31; a two-digit year up
\* to 68 is 20yy, from 69 on 19yy; the day must exist in the month
Strptime(s, year_directive) ==
    LET fields == Split(s, "-") IN
    /\ Len(fields) = 3
    /\ \A i \in 1..3 : IsDigit(fields[i])
    /\ Len(fields[1]) = (IF year_directive = "%y" THEN 2 ELSE 4)
    /\ Len(fields[2]) <= 2 /\ ParseInt(fields[2]) \in 1..12
    /\ Len(fields[3]) <= 2 /\ ParseInt(fields[3]) \in 1..31
    /\ LET yy == ParseInt(fields[1])
           y == IF year_directive = "%Y" THEN yy
                ELSE IF yy <= 68 THEN 2000 + yy ELSE 1900 + yy
       IN ParseInt(fields[3]) <= DaysInMonth(y, ParseInt(fields[2]))

\* the variant that takes digit7 = 9 for no century window
DeriveFullYearMut(yr, seq) ==
    LET digit7 == ParseInt(<<seq[1]>>) IN
    IF digit7 = ValueError THEN ValueError
    ELSE IF 0 <= digit7 /\ digit7 <= 3 THEN 1900 + yr
    ELSE IF digit7 = 4 THEN
        IF yr <= 36 THEN 2000 + yr
        ELSE IF yr >= 36 /\ yr <= 99 THEN 1900 + yr
        ELSE ValueError
    ELSE IF digit7 \in {5, 6, 7, 8} THEN
        IF yr <= 57 THEN 2000 + yr
        ELSE IF yr >= 58 /\ yr <= 99 THEN 1800 + yr
        ELSE ValueError
    ELSE ValueError

\* _derive_full_year(year, seq_number): the full year, or the ValueError raised
DeriveFullYear(yr, seq) ==
    LET digit7 == ParseInt(<<seq[1]>>) IN
    IF digit7 = ValueError THEN ValueError
    ELSE IF 0 <= digit7 /\ digit7 <= 3 THEN 1900 + yr
    ELSE IF digit7 = 4 \/ digit7 = 9 THEN
        IF yr <= 36 THEN 2000 + yr
        ELSE IF yr >= 36 /\ yr <= 99 THEN 1900 + yr
        ELSE ValueError
    ELSE IF digit7 \in {5, 6, 7, 8} THEN
        IF yr <= 57 THEN 2000 + yr
        ELSE IF yr >= 58 /\ yr <= 99 THEN 1800 + yr
        ELSE ValueError
    ELSE ValueError

weights == <<4, 3, 2, 7, 6, 5, 4, 3, 2>>

RECURSIVE WeightedSum(_, _)
WeightedSum(s, i) ==
    IF i = 0 THEN 0 ELSE ParseInt(<<s[i]>>) * weights[i] + WeightedSum(s, i - 1)

\* computed_digit without the branch for remainder 0
ComputedDigitMut(s) ==
    LET total == WeightedSum(s, 9)
        remainder == total % 11
    IN 11 - remainder

\* computed_digit of _verify_modulo_11
ComputedDigit(s) ==
    LET total == WeightedSum(s, 9)
        remainder == total % 11
    IN IF remainder = 0 THEN 0 ELSE 11 - remainder

\* _verify_modulo_11(text, day, month, year, seq_number): "True" or "False"
VerifyModulo11(s, d, m, yr, seq) ==
    LET derived == DeriveFullYear(yr, seq) IN
    IF derived = ValueError THEN "False"
    ELSE IF ~Strptime(DateString(derived, m, d), "%Y") THEN "False"
    ELSE IF ComputedDigit(s) = 10 THEN "False"
    ELSE IF ComputedDigit(s) # ParseInt(<<s[10]>>) THEN "False"
    ELSE "True"

\* line 56: text = sanitize_value(pattern_text, ...)
Sanitize ==
    /\ pc = "call"
    /\ text' = SanitizeValue(pattern_text)
    /\ pc' = "check_shape"
    /\ UNCHANGED <<pattern_text, day, month, year, seq_number, full_year,
                   date_parsed, verify_started, verify_result, verdict>>
    /\ UNCHANGED previous
    /\ UNCHANGED mapper_vars

\* lines 58-59: if len(text) != 10 or not text.isdigit(): return False
CheckShape ==
    /\ pc = "check_shape"
    /\ IF Len(text) # 10 \/ ~IsDigit(text)
          THEN pc' = "done" /\ verdict' = "False"
          ELSE pc' = "extract" /\ UNCHANGED verdict
    /\ UNCHANGED <<pattern_text, text, day, month, year, seq_number, full_year,
                   date_parsed, verify_started, verify_result>>
    /\ UNCHANGED previous
    /\ UNCHANGED mapper_vars

\* lines 62-68: the date parts and the sequence number
ExtractParts ==
    /\ pc = "extract"
    /\ date_parsed' = TRUE
    /\ LET d == ParseInt(SubSeq(text, 1, 2))
           m == ParseInt(SubSeq(text, 3, 4))
           y == ParseInt(SubSeq(text, 5, 6))
       IN IF ValueError \in {d, m, y}
             THEN /\ pc' = "done" /\ verdict' = "False"
                  /\ UNCHANGED <<day, month, year, seq_number>>
             ELSE /\ day' = d /\ month' = m /\ year' = y
                  /\ seq_number' = SubSeq(text, 7, 10)
                  /\ pc' = "validate_date"
                  /\ UNCHANGED verdict
    /\ UNCHANGED <<pattern_text, text, full_year, verify_started, verify_result>>
    /\ UNCHANGED previous
    /\ UNCHANGED mapper_vars

\* the except ValueError of lines 73-74 left out: the method goes on
ValidateDateMut ==
    /\ pc = "validate_date"
    /\ pc' = "verify"
    /\ UNCHANGED <<pattern_text, text, day, month, year, seq_number, full_year,
                   date_parsed, verify_started, verify_result, verdict>>
    /\ UNCHANGED previous
    /\ UNCHANGED mapper_vars

\* lines 71-74: the coarse date check on the two-digit year
ValidateDate ==
    /\ pc = "validate_date"
    /\ IF Strptime(DateString(year, month, day), "%y")
          THEN pc' = "verify" /\ UNCHANGED verdict
          ELSE pc' = "done" /\ verdict' = "False"
    /\ UNCHANGED <<pattern_text, text, day, month, year, seq_number, full_year,
                   date_parsed, verify_started, verify_result>>
    /\ UNCHANGED previous
    /\ UNCHANGED mapper_vars

\* line 76: self._verify_modulo_11(text, day, month, year, seq_number),
\* its value dropped
CallVerify ==
    /\ pc = "verify"
    /\ verify_started' = TRUE
    /\ full_year' = DeriveFullYear(year, seq_number)
    /\ verify_result' = VerifyModulo11(text, day, month, year, seq_number)
    /\ pc' = "return"
    /\ UNCHANGED <<pattern_text, text, day, month, year, seq_number, date_parsed,
                   verdict>>
    /\ UNCHANGED previous
    /\ UNCHANGED mapper_vars

\* line 78: return True
ReturnTrue ==
    /\ pc = "return"
    /\ verdict' = "True"
    /\ pc' = "done"
    /\ UNCHANGED <<pattern_text, text, day, month, year, seq_number, full_year,
                   date_parsed, verify_started, verify_result>>
    /\ UNCHANGED previous
    /\ UNCHANGED mapper_vars

\* n as two digits
TwoDigits(n) == <<DigitChars[(n \div 10) + 1], DigitChars[(n % 10) + 1]>>

\* the candidates validate_result is called with: ten digits over a grid of
\* days, months, years, century digits and check digits
CandidateDays == {0, 1, 29, 30, 31, 32}
CandidateMonths == {0, 2, 4, 12, 13}
CandidateYears == {0, 9, 10, 12, 36, 37, 57, 58, 99}

TenDigitCandidates ==
    {TwoDigits(d) \o TwoDigits(m) \o TwoDigits(y) \o <<d7, "1", "1", d10>> :
        d \in CandidateDays, m \in CandidateMonths, y \in CandidateYears,
        d7 \in {DigitChars[i] : i \in 1..10}, d10 \in {DigitChars[i] : i \in 1..10}}

\* the separators pattern DK_SSN3 admits between the two groups
Separators == {" ", "-", "\t"}

\* six digits, a separator, four digits
SeparatedCandidates ==
    {SubSeq(c, 1, 6) \o <<sep>> \o SubSeq(c, 7, 10) :
        c \in {x \in TenDigitCandidates : x[7] = "1"}, sep \in Separators}

\* texts of another shape: nine digits, eleven digits, a letter among the digits
MisshapenCandidates ==
    {SubSeq(c, 1, 9) : c \in {x \in TenDigitCandidates : x[7] = "2"}}
    \cup {c \o <<"1">> : c \in {x \in TenDigitCandidates : x[7] = "2"}}
    \cup {SubSeq(c, 1, 4) \o <<"a">> \o SubSeq(c, 6, 10) :
            c \in {x \in TenDigitCandidates : x[7] = "2"}}

Candidates == TenDigitCandidates \cup SeparatedCandidates \cup MisshapenCandidates

\* the operators at rest, while the recognizer runs
MapperIdle ==
    /\ package = "scrambletron"
    /\ operator_name = "entity_replacer"
    /\ entity_mapping = EmptyDict
    /\ last_call = NoCall
    /\ returned = NoResult
    /\ generated = NoResult
    /\ GenderIdle

\* one call of validate_result(pattern_text)
ValidatorInit ==
    /\ pattern_text \in Candidates
    /\ pc = "call"
    /\ text = <<>>
    /\ day = 0 /\ month = 0 /\ year = 0
    /\ seq_number = <<>>
    /\ full_year = 0
    /\ date_parsed = FALSE
    /\ verify_started = FALSE
    /\ verify_result = "none"
    /\ verdict = "none"
    /\ previous = NoPrevious
    /\ MapperIdle

\* a second call of validate_result: a candidate written with a separator has
\* returned, and the same digits written without it are validated next (the
\* text DK_SSN1 matches where DK_SSN3 matched the first)
CallAgain ==
    /\ pc = "done"
    /\ previous = NoPrevious
    /\ Len(pattern_text) = 11 /\ pattern_text[7] \in Separators
    /\ previous' = [pattern_text |-> pattern_text, verdict |-> verdict]
    /\ pattern_text' = SubSeq(pattern_text, 1, 6) \o SubSeq(pattern_text, 8, 11)
    /\ pc' = "call"
    /\ text' = <<>>
    /\ day' = 0 /\ month' = 0 /\ year' = 0
    /\ seq_number' = <<>>
    /\ full_year' = 0
    /\ date_parsed' = FALSE
    /\ verify_started' = FALSE
    /\ verify_result' = "none"
    /\ verdict' = "none"
    /\ UNCHANGED mapper_vars

ValidatorNext ==
    \/ Sanitize
    \/ CheckShape
    \/ ExtractParts
    \/ ValidateDate
    \/ CallVerify
    \/ ReturnTrue
    \/ CallAgain

ValidatorSpec == ValidatorInit /\ [][ValidatorNext]_vars

\* the largest year _derive_full_year is called with
MaxYear == 99

\* one call of _derive_full_year(year, seq_number)
DeriveInit ==
    /\ year \in 0..MaxYear
    /\ seq_number \in {<<c, "0", "0", "1">> : c \in {DigitChars[i] : i \in 1..10} \cup {"x"}}
    /\ pc = "derive_call"
    /\ pattern_text = <<>>
    /\ text = <<>>
    /\ day = 0 /\ month = 0
    /\ full_year = 0
    /\ date_parsed = FALSE
    /\ verify_started = FALSE
    /\ verify_result = "none"
    /\ verdict = "none"
    /\ previous = NoPrevious
    /\ MapperIdle

DeriveCall ==
    /\ pc = "derive_call"
    /\ full_year' = DeriveFullYear(year, seq_number)
    /\ pc' = "derive_done"
    /\ UNCHANGED <<pattern_text, text, day, month, year, seq_number, date_parsed,
                   verify_started, verify_result, verdict>>
    /\ UNCHANGED previous
    /\ UNCHANGED mapper_vars

DeriveNext == DeriveCall

DeriveSpec == DeriveInit /\ [][DeriveNext]_vars

---------------------------------------------------------------------------
(* Properties of the recognizer *)

\* the candidate as the claims read it: spaces and hyphens taken out
Normalized == SelectSeq(pattern_text, LAMBDA c : c # " " /\ c # "-")

TenDigits(s) == Len(s) = 10 /\ \A i \in 1..Len(s) : IsDigitChar(s[i])

\* the number two digit characters write
Number2(a, b) == 10 * DigitValue(a) + DigitValue(b)

\* day d of month m exists in year y
CalendarDate(y, m, d) == m \in 1..12 /\ d >= 1 /\ d <= DaysInMonth(y, m)

\* day, month and two-digit year of a ten-digit candidate form a calendar date
\* (years 00..68 read as 20yy, 69..99 as 19yy)
CoarseDateValid(s) ==
    LET yy == Number2(s[5], s[6])
    IN CalendarDate(IF yy <= 68 THEN 2000 + yy ELSE 1900 + yy,
                    Number2(s[3], s[4]), Number2(s[1], s[2]))

\* day and month of a ten-digit candidate form a calendar date in the full
\* year its two-digit year and digit7 derive
FullDateValid(s) ==
    /\ DeriveFullYear(Number2(s[5], s[6]), SubSeq(s, 7, 10)) # ValueError
    /\ CalendarDate(DeriveFullYear(Number2(s[5], s[6]), SubSeq(s, 7, 10)),
                    Number2(s[3], s[4]), Number2(s[1], s[2]))

\* C3: the validator accepts exactly when the computed modulo-11 check digit
\* equals the 10th digit.  For a ten-digit candidate that passed the coarse date
\* check and whose derived full-year date is real, validate_result returns
\* True if and only if the computed check digit equals the 10th digit (so it
\* returns False when the checksum fails or the computed digit is 10).
C3_ChecksumDecides ==
    (pc = "done" /\ TenDigits(Normalized) /\ verify_started /\ FullDateValid(Normalized))
    => (verdict = "True" <=> ComputedDigit(Normalized) = DigitValue(Normalized[10]))

\* C7: century derivation.  For every two-digit year 0..99 and every first
\* character of the sequence number, _derive_full_year gives the value of the
\* rule table: 1900+year for digit7 0..3; for 4 and 9, 2000+year up to year 36
\* and 1900+year above; for 5..8, 2000+year up to year 57 and 1800+year
\* above; anything else is rejected.
C7_CenturyDerivation ==
    (pc = "derive_done" /\ year \in 0..99) =>
        full_year =
            CASE seq_number[1] \in {"0", "1", "2", "3"} -> 1900 + year
              [] seq_number[1] \in {"4", "9"} ->
                    IF year <= 36 THEN 2000 + year ELSE 1900 + year
              [] seq_number[1] \in {"5", "6", "7", "8"} ->
                    IF year <= 57 THEN 2000 + year ELSE 1800 + year
              [] OTHER -> ValueError

\* C7 witness: digit7 = 9 and year 10 gave 2010
C7_Witness ==
    pc = "derive_done" /\ year = 10 /\ seq_number[1] = "9" /\ full_year = 2010

\* C8: ordering of the validation steps.  A candidate that is not ten digits
\* once normalized is rejected before any date parsing; a ten-digit candidate
\* whose day, month and two-digit year form no calendar date is rejected with
\* _verify_modulo_11 never started.
C8_Ordering ==
    /\ ~TenDigits(Normalized) =>
          /\ ~date_parsed
          /\ ~verify_started
          /\ pc = "done" => verdict = "False"
    /\ (TenDigits(Normalized) /\ ~CoarseDateValid(Normalized)) =>
          /\ ~verify_started
          /\ pc = "done" => verdict = "False"

\* C8 witness: 30 February of a two-digit year from 10 on, rejected after the
\* date parts were parsed and before the checksum step
C8_Witness ==
    /\ pc = "done"
    /\ verdict = "False"
    /\ date_parsed
    /\ ~verify_started
    /\ day = 30 /\ month = 2 /\ year = 12

\* C12: normalization and length check.  validate_result strips every space
\* and hyphen before it checks anything; a candidate whose normalized form is
\* not exactly ten digits returns False; and a candidate written as six
\* digits, a space or a hyphen, four digits gets the verdict the same ten
\* digits get when written without the separator.
C12_Normalization ==
    /\ pc = "call" => (verdict = "none" /\ ~date_parsed /\ ~verify_started)
    /\ pc \in {"check_shape", "extract", "validate_date", "verify", "return", "done"}
          => text = Normalized
    /\ (pc = "done" /\ ~TenDigits(Normalized)) => verdict = "False"
    /\ (pc = "done" /\ previous # NoPrevious /\ previous.pattern_text[7] \in {" ", "-"})
          => verdict = previous.verdict

\* C12 witness: a candidate written with a space was accepted, and so were its
\* ten digits written without the space
C12_Witness ==
    /\ pc = "done"
    /\ previous # NoPrevious
    /\ previous.pattern_text[7] = " "
    /\ previous.verdict = "True"
    /\ Len(pattern_text) = 10
    /\ verdict = "True"

\* the first nine digits times 4, 3, 2, 7, 6, 5, 4, 3, 2, summed, modulo 11
ChecksumRemainder(s) ==
    (4 * DigitValue(s[1]) + 3 * DigitValue(s[2]) + 2 * DigitValue(s[3])
     + 7 * DigitValue(s[4]) + 6 * DigitValue(s[5]) + 5 * DigitValue(s[6])
     + 4 * DigitValue(s[7]) + 3 * DigitValue(s[8]) + 2 * DigitValue(s[9])) % 11

\* the check digit of the claim: 0 for remainder 0, else 11 - remainder
CheckDigit(s) == IF ChecksumRemainder(s) = 0 THEN 0 ELSE 11 - ChecksumRemainder(s)

\* C13: checksum computation.  For a ten-digit string that passed the date and
\* century steps, _verify_modulo_11 returns False whenever the check digit
\* computed from the first nine digits (weights 4,3,2,7,6,5,4,3,2, modulo 11,
\* 0 for remainder 0 and 11 - remainder otherwise) is 10, whatever the 10th
\* digit, and otherwise returns True exactly when it equals the 10th digit.
C13_Checksum ==
    (verify_started /\ TenDigits(text) /\ FullDateValid(text)) =>
        verify_result =
            IF CheckDigit(text) = 10 THEN "False"
            ELSE IF CheckDigit(text) = DigitValue(text[10]) THEN "True"
            ELSE "False"

\* C13 witness: remainder 0 and a 10th digit 0, and _verify_modulo_11
\* returned True
C13_Witness ==
    /\ verify_started
    /\ TenDigits(text)
    /\ FullDateValid(text)
    /\ ChecksumRemainder(text) = 0
    /\ text[10] = "0"
    /\ verify_result = "True"

\* C14: full-year date re-validation.  validate_result returns False for every
\* ten-digit candidate whose day and month form no calendar date in the full
\* year derived from its two-digit year and digit7 (29 February of a derived
\* 1900, say), also when day, month and two-digit year read as a calendar date.
C14_FullYearDate ==
    (pc = "done" /\ TenDigits(Normalized) /\ ~FullDateValid(Normalized))
        => verdict = "False"

\* C14 witness: 29 February 00 with a digit7 that derives 1900 (a calendar
\* date when 00 reads as 2000) was rejected
C14_Witness ==
    /\ pc = "done"
    /\ TenDigits(Normalized)
    /\ day = 29 /\ month = 2 /\ year = 0
    /\ DeriveFullYear(year, seq_number) = 1900
    /\ CoarseDateValid(Normalized)
    /\ ~FullDateValid(Normalized)
    /\ verdict = "False"

\* C15: the coarse date check does not reject a candidate for the way its
\* two-digit year is written.  Every ten-digit candidate whose day, month and
\* two-digit year (years 00 to 09 included) form a calendar date passes the
\* check, and validation goes on to the century and checksum step.
C15_YearWriting ==
    (pc = "done" /\ TenDigits(Normalized) /\ CoarseDateValid(Normalized))
        => verify_started

====
